---- MODULE Spec2Model ----
(***************************************************************************)
(* Model of the download orchestration engine of pixiv.py: the path        *)
(* planner (check_files / get_filepath), the worker loop                   *)
(* (download_threading), the download executor (download_file), the        *)
(* progress reporter (print_progress / get_speed), the orchestrator        *)
(* (download_illustrations / start_and_wait_download_threading) and the    *)
(* file remover (remove_repeat).                                           *)
(***************************************************************************)
EXTENDS Integers, Sequences, FiniteSets, TLC

(* ------------------------------ bounds --------------------------------- *)
\* worker threads started per run (the program starts _THREADING_NUMBER = 10)
NumWorkers == 2
\* illustrations in one data_list
MaxIllust == 2
\* image URLs of one illustration of a run
MaxPages == 1
\* image URLs of one data_list the planner is verified on
MaxPlanUrls == 3
\* calls of download_illustrations in one process
MaxRuns == 2
\* bytes of one chunk of a response body, and the chunks of one body
ChunkLen == 1
MaxChunks == 1
\* calls of download_file that raise in one process of any data_list: the
\* request failing (another status than ok, an exception of requests.get) or,
\* after the answer, the body breaking off, open() or a write raising
PoolFailures == 1
\* requests that fail in a process that asks for one URL (one more than
\* MAX_ERROR_COUNT, so that a request can fail once the count is at its limit)
RetryFailures == 6

\* get_speed is verified on byte counts within 1 of m times a unit size, for
\* m up to MaxSample, and on ticks of 1 to MaxElapsed seconds
MaxSample == 3
MaxElapsed == 2

(* ------------------------- program constants --------------------------- *)
MAX_ERROR_COUNT == 5
\* the base of the units of get_speed
KILO == 1024

(* ------------------------------- data ---------------------------------- *)
\* A URL is the sequence of its '/'-separated segments: the file of a
\* one-page illustration, and the first page of the same illustration as
\* pages are named.
URLS == { <<"h1", "123.jpg">>, <<"h1", "123_p0.jpg">> }
\* The planner is verified on a third URL: another host, the same last segment.
PlanURLS == URLS \cup { <<"h2", "123.jpg">> }

Workers == 1..NumWorkers

Range(s) == { s[i] : i \in DOMAIN s }

RECURSIVE SeqsNoDup(_, _)
\* the duplicate-free sequences over S of length at most n
SeqsNoDup(S, n) ==
    IF n = 0 THEN { <<>> }
    ELSE LET shorter == SeqsNoDup(S, n - 1)
         IN  shorter \cup
             { Append(p[1], p[2]) : p \in { q \in shorter \X S : q[2] \notin Range(q[1]) } }

\* An illustration as the planner reads it: user_id, rank and image_urls.
Illustration(u, r, urls) == [user_id |-> u, rank |-> r, image_urls |-> urls]

RECURSIVE SumLen(_)
SumLen(ills) ==
    IF ills = <<>> THEN 0 ELSE Len(Head(ills).image_urls) + SumLen(Tail(ills))

\* count_illustrations
count_illustrations(ills) == SumLen(ills)

(* ------------------------ get_default_save_path ------------------------ *)
\* <program directory>/illustrations
Base == <<"base", 0>>

\* lines 53-61: the base directory is made if it is missing (the program's
\* own directory is there); the directories after the call
get_default_save_path(ds) == ds \cup {Base}

(* --------------------------- get_filepath ------------------------------ *)
\* url.split('/')[-1]
LastSegment(url) == url[Len(url)]

\* The directory a file is saved in: the per-user folder (found by the
\* user id that leads its name, or named after it) or save_path itself.
DirOf(ill, add_user_folder) ==
    IF add_user_folder THEN <<"user", ill.user_id>> ELSE <<"save_path", 0>>

\* The file name: the URL's last segment, prefixed by the rank if add_rank
\* (rank 0 stands for no prefix).
FileName(url, ill, add_rank) ==
    <<IF add_rank THEN ill.rank ELSE 0, LastSegment(url)>>

\* lines 163-184: the name, the path, and the directories after the call
\* (line 169 calls get_default_save_path)
get_filepath(url, ill, ds, add_user_folder, add_rank) ==
    [file |-> FileName(url, ill, add_rank),
     path |-> [dir  |-> DirOf(ill, add_user_folder),
               name |-> FileName(url, ill, add_rank)],
     dirs |-> IF add_user_folder THEN get_default_save_path(ds) ELSE ds]

(* ---------------------------- check_files ------------------------------ *)
\* line 197: the URL is dropped from the illustration, not enqueued
SkipsUrlMut(exists) == FALSE
SkipsUrl(exists) == exists

RECURSIVE ScanUrls(_, _, _, _, _, _)
\* lines 195-201: the loop over a copy of one illustration's image_urls.
\* acc = [kept: the image_urls left, tasks: the tasks put, count, dirs]
ScanUrls(urls, ill, fs, add_user_folder, add_rank, acc) ==
    IF urls = <<>> THEN acc
    ELSE LET url == Head(urls)
             fp  == get_filepath(url, ill, acc.dirs, add_user_folder, add_rank)
         IN  IF SkipsUrl(fp.path \in fs)
             THEN ScanUrls(Tail(urls), ill, fs, add_user_folder, add_rank,
                      [acc EXCEPT !.kept = SelectSeq(acc.kept, LAMBDA x : x # url),
                                  !.dirs = fp.dirs])
             ELSE ScanUrls(Tail(urls), ill, fs, add_user_folder, add_rank,
                      [acc EXCEPT !.tasks = Append(acc.tasks,
                                       [url |-> url, file |-> fp.file, path |-> fp.path]),
                                  !.count = acc.count + 1,
                                  !.dirs = fp.dirs])

RECURSIVE ScanIllusts(_, _, _, _, _)
\* lines 191-201: the loop over a copy of the illustration list.
\* acc = [illustrations: the list left, queue, count, dirs]
ScanIllusts(ills, fs, add_user_folder, add_rank, acc) ==
    IF ills = <<>> THEN acc
    ELSE LET ill == Head(ills)
         IN  IF ill.image_urls = <<>>
             THEN ScanIllusts(Tail(ills), fs, add_user_folder, add_rank, acc)
             ELSE LET r == ScanUrls(ill.image_urls, ill, fs, add_user_folder, add_rank,
                                    [kept |-> ill.image_urls, tasks |-> <<>>, count |-> 0,
                                     dirs |-> acc.dirs])
                  IN  ScanIllusts(Tail(ills), fs, add_user_folder, add_rank,
                          [illustrations |-> Append(acc.illustrations,
                                                [ill EXCEPT !.image_urls = r.kept]),
                           queue |-> acc.queue \o r.tasks,
                           count |-> acc.count + r.count,
                           dirs |-> r.dirs])

\* check_files over the files fs and the directories ds: the queue, the
\* count, the illustration list as it leaves, and the directories after it.
check_files(ills, fs, ds, add_user_folder, add_rank) ==
    ScanIllusts(ills, fs, add_user_folder, add_rank,
                [illustrations |-> <<>>, queue |-> <<>>, count |-> 0, dirs |-> ds])

(* ------------------------------ inputs --------------------------------- *)
\* The two ways the program calls download_illustrations: per artist
\* (download_by_user_id, update_exist) and per ranking (download_by_ranking,
\* download_by_history_ranking).
ByUserId == [add_user_folder |-> TRUE, add_rank |-> FALSE]
ByRanking == [add_user_folder |-> FALSE, add_rank |-> TRUE]
Callers == { ByUserId, ByRanking }

RECURSIVE SeqsUpTo(_, _)
\* the sequences over S of length at most n
SeqsUpTo(S, n) ==
    IF n = 0 THEN { <<>> }
    ELSE LET shorter == SeqsUpTo(S, n - 1)
         IN  shorter \cup { Append(p[1], p[2]) : p \in shorter \X S }

RECURSIVE Flatten(_)
Flatten(pages) == IF pages = <<>> THEN <<>> ELSE Head(pages) \o Flatten(Tail(pages))

\* The image_urls of the illustrations of one data_list of a run.
PageLists == SeqsUpTo(SeqsNoDup(URLS, MaxPages) \ {<<>>}, MaxIllust)

\* The most tasks a run can plan.
MaxTasks == MaxIllust * MaxPages

\* The image_urls of the illustrations of one data_list the planner is
\* verified on.
PlanPageLists ==
    { pages \in SeqsUpTo(SeqsNoDup(PlanURLS, MaxPlanUrls), MaxIllust) :
         Len(Flatten(pages)) <= MaxPlanUrls }

\* PixivIllustModel.from_data: the illustrations of one artist (one user_id),
\* or those of a ranking (the i-th has rank i).
from_data(pages, opt) ==
    [i \in 1..Len(pages) |->
        IF opt.add_user_folder THEN Illustration(1, 0, pages[i])
                               ELSE Illustration(i, i, pages[i])]

(* ------------------------------- state --------------------------------- *)
VARIABLES
    opts,              \* add_user_folder, add_rank of the last call
    data_list,         \* the image URLs the API returned, per illustration
    files, dirs,       \* the files and the directories that exist
    illustrations,     \* the illustration list as check_files left it
    plan_count,        \* count, as check_files returned it last
    download_queue,    \* queue.Queue: the items waiting
    unfinished_tasks,  \* queue.Queue.unfinished_tasks
    queue_size, finished_download, Global_Download, error_count,
    pc, task, count,   \* per worker: position, illustration, count (line 127)
    got,               \* per worker: the chunks received of the body (line 109)
    skipped,           \* per worker: line 129 found the file there, line 146 is next
    rpc,               \* print_progress: position
    mpc, runs,         \* the main thread: position, calls made
    failed,            \* history: the calls of download_file that raised, per URL
    succeeded,         \* history: the URLs download_file returned for in this run
    writes,            \* history: files written whole in this run, per path
    retired, noops,    \* history: tasks of this run retired / answers without a length
    reached,           \* history: per URL, whether its count has stood at the budget
    budget,            \* the requests that are still to fail
    faults,            \* the calls of download_file still to raise after the answer
    one_url,           \* the API answers this process with RetryLists only
    removed,           \* history: remove_repeat deleted a file since the last call
    folder_lock,       \* _CREATE_FOLDER_LOCK: the worker that holds it, or 0
    speed_lock,        \* _SPEED_LOCK: "reporter" while get_speed holds it, or "free"
    down, tick,        \* get_speed: its local down and its argument t0 (seconds)
    printed,           \* get_speed: the value it returns
    sampled, added     \* history: the bytes of this run sampled / added to the counter

vars == <<opts, data_list, files, dirs, illustrations, plan_count, download_queue,
          unfinished_tasks, queue_size, finished_download, Global_Download,
          error_count, pc, task, count, got, skipped, rpc, mpc, runs, failed, succeeded, writes,
          retired, noops, reached, budget, faults, one_url, removed, folder_lock, speed_lock, down, tick,
          printed, sampled, added>>

envVars == <<opts, data_list>>
fsVars == <<files, dirs>>
planVars == <<illustrations, plan_count>>
queueVars == <<download_queue, unfinished_tasks>>
progressVars == <<queue_size, finished_download>>
workerVars == <<pc, task, count, got, skipped>>
mainVars == <<mpc, runs>>
histVars == <<failed, succeeded, writes, retired, noops, reached, budget, faults, one_url, removed>>
lockVars == <<folder_lock, speed_lock>>
speedVars == <<down, tick, printed>>
byteVars == <<sampled, added>>

NoTask == [url |-> <<>>, file |-> <<>>, path |-> <<>>]

\* line 209: the defaults of add_user_folder and add_rank
NoOpts == [add_user_folder |-> FALSE, add_rank |-> FALSE]

\* get_speed has returned nothing yet
NoLine == [hundredths |-> 0, unit |-> "none"]

TypeOK ==
    /\ opts \in Callers \cup {NoOpts}
    /\ data_list \in PageLists \cup PlanPageLists
    /\ plan_count \in 0..(MaxTasks + MaxPlanUrls)
    /\ unfinished_tasks \in 0..(MaxTasks + MaxPlanUrls + NumWorkers)
    /\ queue_size \in 0..(MaxTasks + MaxPlanUrls)
    /\ finished_download \in Nat
    /\ Global_Download \in Nat
    /\ error_count \in [URLS -> Nat]
    /\ pc \in [Workers -> {"idle", "empty", "get", "count", "exists", "lock", "makedirs",
                           "request", "recv", "write", "incr", "put", "errinc", "retire",
                           "done", "exit", "dead"}]
    /\ count \in [Workers -> Nat]
    /\ got \in [Workers -> 0..MaxChunks]
    /\ skipped \in [Workers -> BOOLEAN]
    /\ rpc \in {"idle", "loop", "sleep", "zero", "done", "return"}
    /\ mpc \in {"idle", "call", "join", "pjoin"}
    /\ runs \in 0..MaxRuns
    /\ reached \in [URLS -> {"never", "now", "before"}]
    /\ budget \in 0..RetryFailures
    /\ faults \in 0..PoolFailures
    /\ one_url \in BOOLEAN
    /\ removed \in BOOLEAN
    /\ folder_lock \in {0} \cup Workers
    /\ speed_lock \in {"free", "reporter"}
    /\ down \in Nat /\ tick \in Nat \ {0}
    /\ sampled \in Nat /\ added \in Nat

\* The process as it starts: nothing downloaded, no folder made, no error
\* counted, no thread started.
Fresh ==
    /\ opts = NoOpts
    /\ data_list = <<>>
    /\ files = {} /\ dirs = {}
    /\ illustrations = <<>> /\ plan_count = 0
    /\ download_queue = <<>> /\ unfinished_tasks = 0
    /\ queue_size = 0 /\ finished_download = 0 /\ Global_Download = 0
    /\ error_count = [u \in URLS |-> 0]
    /\ pc = [w \in Workers |-> "idle"]
    /\ task = [w \in Workers |-> NoTask]
    /\ count = [w \in Workers |-> 0]
    /\ got = [w \in Workers |-> 0]
    /\ skipped = [w \in Workers |-> FALSE]
    /\ rpc = "idle"
    /\ mpc = "idle" /\ runs = 0
    /\ failed = [u \in URLS |-> 0] /\ succeeded = {}
    /\ writes = [p \in {} |-> 0] /\ retired = 0 /\ noops = 0
    /\ reached = [u \in URLS |-> "never"]
    /\ removed = FALSE
    /\ folder_lock = 0 /\ speed_lock = "free"
    /\ down = 0 /\ tick = 1 /\ printed = NoLine
    /\ sampled = 0 /\ added = 0

\* download_by_user_id for one artist whose data_list holds one URL, in one
\* illustration or in two: what the retries of one URL come to.
RetryLists == SeqsUpTo({ << <<"h1", "123.jpg">> >> }, MaxIllust)

\* The calls a process makes: any caller with any data_list, or, in a process
\* that asks for one URL, download_by_user_id with a data_list of that URL.
Asks(opt, pages) == one_url => (opt = ByUserId /\ pages \in RetryLists)

\* The network and the disk of the process: PoolFailures calls of
\* download_file raise, at the request or after it; or, when the process asks
\* for one URL, RetryFailures requests fail and nothing else does.
Init ==
    /\ Fresh
    /\ \/ /\ one_url = FALSE
          /\ \E n \in 0..PoolFailures : budget = n /\ faults = PoolFailures - n
       \/ /\ one_url = TRUE
          /\ budget = RetryFailures /\ faults = 0

(* -------------------------- the main thread ---------------------------- *)
\* lines 234, 245, 256 and 262: each caller of download_illustrations calls
\* get_default_save_path() first
caller_save_path ==
    /\ mpc = "idle" /\ runs < MaxRuns
    /\ dirs' = get_default_save_path(dirs)
    /\ mpc' = "call"
    /\ UNCHANGED <<envVars, files, planVars, queueVars, progressVars, Global_Download,
                   error_count, workerVars, rpc, runs, histVars, lockVars, speedVars,
                   byteVars>>

\* lines 221-226: _queue_size, _finished_download and _Global_Download are
\* set only when check_files counted a task.
CountersAfterPlanMut(cnt, qs, fin, gd) == <<cnt, 0, 0>>
CountersAfterPlan(cnt, qs, fin, gd) ==
    IF cnt > 0 THEN <<cnt, 0, 0>> ELSE <<qs, fin, gd>>

\* download_illustrations(user, data_list, save_path, add_user_folder,
\* add_rank) up to the return of the planner and, if it counted a task, the
\* start of the reporter and the worker threads (lines 151-157).
\* The threads of an earlier run are left out once the new ones start: that run
\* has returned, so each of them holds no task and can only leave its loop or
\* wait on the earlier run's queue, which nothing fills again.
download_illustrations(opt, pages) ==
    /\ mpc = "call"
    /\ opts' = opt /\ data_list' = pages
    /\ LET r == check_files(from_data(pages, opt), files, dirs,
                            opt.add_user_folder, opt.add_rank)
           c == CountersAfterPlan(r.count, queue_size, finished_download, Global_Download)
       IN  /\ illustrations' = r.illustrations
           /\ plan_count' = r.count
           /\ dirs' = r.dirs
           /\ queue_size' = c[1]
           /\ finished_download' = c[2]
           /\ Global_Download' = c[3]
           /\ IF r.count > 0
              THEN /\ download_queue' = r.queue
                   /\ unfinished_tasks' = Len(r.queue)
                   /\ rpc' = "loop"
                   /\ pc' = [w \in Workers |-> "empty"]
                   /\ task' = [w \in Workers |-> NoTask]
                   /\ count' = [w \in Workers |-> 0]
                   /\ got' = [w \in Workers |-> 0]
                   /\ skipped' = [w \in Workers |-> FALSE]
                   /\ mpc' = "join"
                   /\ writes' = [p \in {} |-> 0] /\ retired' = 0 /\ noops' = 0
                   /\ succeeded' = {}
                   /\ sampled' = 0 /\ added' = 0
              ELSE /\ mpc' = "idle"
                   /\ UNCHANGED <<queueVars, rpc, workerVars, writes, retired, noops,
                                  succeeded, byteVars>>
    /\ runs' = runs + 1
    /\ removed' = FALSE
    /\ reached' = [u \in URLS |-> IF reached[u] = "never" THEN "never" ELSE "before"]
    /\ UNCHANGED <<files, lockVars, speedVars, error_count, failed, budget, one_url, faults>>

\* queue.Queue.join returns once unfinished_tasks is 0
JoinReturnsMut(unfinished, q) == q = <<>>
JoinReturns(unfinished, q) == unfinished = 0

\* line 159: download_queue.join()
queue_join ==
    /\ mpc = "join"
    /\ JoinReturns(unfinished_tasks, download_queue)
    /\ mpc' = "pjoin"
    /\ UNCHANGED <<envVars, lockVars, speedVars, byteVars, fsVars, planVars, queueVars,
                   progressVars, Global_Download,
                   error_count, workerVars, rpc, runs, histVars>>

\* line 160: p.join() returns once print_progress has returned
reporter_join ==
    /\ mpc = "pjoin"
    /\ rpc = "done"
    /\ mpc' = "idle"
    /\ UNCHANGED <<envVars, lockVars, speedVars, byteVars, fsVars, planVars, queueVars,
                   progressVars, Global_Download,
                   error_count, workerVars, rpc, runs, histVars>>

(* --------------------------- remove_repeat ----------------------------- *)
\* line 303: re.search('^\d+\.', f), on the names of the model: digits and a
\* dot lead the name of a one-page file saved without a rank
HasIllustrationId(name) == name[1] = 0 /\ name[2] = "123.jpg"

\* line 305: illustration_id.string.replace('.', '_p0.')
WithP0(name) ==
    <<name[1], IF name[2] = "123.jpg" THEN "123_p0.jpg" ELSE "123_p0_p0.jpg">>

\* lines 298-305: the files of the artists' folders ('^(\d+) ') whose name
\* with _p0 is a file of the same folder
Repeats(fs, ds) ==
    { p \in fs : /\ p.dir \in ds /\ p.dir[1] = "user"
                 /\ HasIllustrationId(p.name)
                 /\ [dir |-> p.dir, name |-> WithP0(p.name)] \in fs }

\* remove_repeat, the answer being y: between two calls of the menu
remove_repeat ==
    /\ mpc = "idle"
    /\ dirs' = get_default_save_path(dirs)
    /\ files' = files \ Repeats(files, dirs')
    /\ removed' = (removed \/ Repeats(files, dirs') # {})
    /\ UNCHANGED <<envVars, planVars, queueVars, progressVars, Global_Download,
                   error_count, workerVars, rpc, mainVars, failed, succeeded, writes,
                   retired, noops, reached, budget, one_url, faults, lockVars, speedVars, byteVars>>

(* ------------------------- print_progress ------------------------------ *)
\* threading.Lock: acquire returns only while no thread holds the lock
SpeedLockFreeMut(holder) == TRUE
SpeedLockFree(holder) == holder = "free"

\* line 82: the loop ends when _finished_download == _queue_size
LoopEndsMut(finished, total) == finished >= total - 1
LoopEnds(finished, total) == finished = total

\* line 82 with _finished_download == _queue_size: print_progress returns
progress_return ==
    /\ rpc = "loop"
    /\ LoopEnds(finished_download, queue_size)
    /\ rpc' = "done"
    /\ UNCHANGED <<envVars, lockVars, speedVars, byteVars, fsVars, planVars, queueVars,
                   progressVars, Global_Download,
                   error_count, workerVars, mainVars, histVars>>

\* line 82 otherwise, and line 83: the reporter sleeps
progress_sleep ==
    /\ rpc = "loop"
    /\ ~LoopEnds(finished_download, queue_size)
    /\ rpc' = "sleep"
    /\ UNCHANGED <<envVars, lockVars, speedVars, byteVars, fsVars, planVars, queueVars,
                   progressVars, Global_Download,
                   error_count, workerVars, mainVars, histVars>>

\* lines 84-99 up to get_speed lines 66-68: the sleep is over, _SPEED_LOCK is
\* acquired and _Global_Download read, whatever the counters are by now
progress_sample ==
    /\ rpc = "sleep"
    /\ SpeedLockFree(speed_lock)
    /\ speed_lock' = "reporter"
    /\ down' = Global_Download
    /\ rpc' = "zero"
    /\ UNCHANGED <<envVars, folder_lock, tick, printed, byteVars, fsVars, planVars,
                   queueVars, progressVars, Global_Download, error_count, workerVars,
                   mainVars, histVars>>

\* get_speed line 69 and the end of the with block: _Global_Download is set
\* to 0 and the lock released; the sample is down; back to line 82
progress_zero ==
    /\ rpc = "zero"
    /\ Global_Download' = 0
    /\ sampled' = sampled + down
    /\ down' = 0
    /\ speed_lock' = "free"
    /\ rpc' = "loop"
    /\ UNCHANGED <<envVars, folder_lock, tick, printed, added, fsVars, planVars,
                   queueVars, progressVars, error_count, workerVars, mainVars, histVars>>

print_progress == progress_return \/ progress_sleep \/ progress_sample \/ progress_zero

(* ------------------------ download_threading --------------------------- *)
\* A step of a worker ends at each access to a variable another thread reads
\* or writes. The request of download_file up to its status touches nothing
\* shared and is one step; a critical section is one step where it only reads
\* or only adds (the test of line 131 finding the directory, the adding of
\* a chunk, the counting of a task). The line get_speed returns is not kept
\* here: SpecSpeed below follows get_speed.

\* What one call of requests.get can come to: status ok with a
\* content-length, status ok without one, or another status / an exception.
Outcomes == {"ok", "nolen", "error"}

\* What os.makedirs of a missing directory can come to: done, or an OSError
\* (permission, disk, a file in the way).
FsOutcomes == {"done", "oserror"}

\* What lines 114-115 can come to: the file written, open() raising, or the
\* file opened and a write raising.
WriteOutcomes == {"done", "noopen", "partial"}

\* line 128: the test on the count read at line 127
UnderBudget(c) == c < MAX_ERROR_COUNT

\* line 141: the count stored is the one read at line 127, plus one
NextErrorCountMut(c, current) == c + 2
NextErrorCount(c, current) == c + 1

\* lines 105-107: the body is received and the file written only with status
\* ok and a content-length
HasBodyMut(outcome) == FALSE
HasBodyAnyLength(outcome) == TRUE
HasBody(outcome) == outcome = "ok"

\* lines 137-141: the handler leaves _finished_download as it is
FinishedAfterRetryMut(finished) == finished + 1
FinishedAfterRetry(finished) == finished

\* line 140: Queue.put counts the item put as unfinished
UnfinishedAfterPutMut(unfinished) == unfinished
UnfinishedAfterPut(unfinished) == unfinished + 1

\* threading.Lock: acquire returns only while no thread holds the lock
FolderLockFreeMut(holder) == TRUE
FolderLockFree(holder) == holder = 0

\* line 122: while not download_queue.empty()
worker_empty(w) ==
    /\ pc[w] = "empty"
    /\ pc' = [pc EXCEPT ![w] = IF download_queue = <<>> THEN "exit" ELSE "get"]
    /\ UNCHANGED <<envVars, lockVars, speedVars, byteVars, fsVars, planVars, queueVars,
                   progressVars, Global_Download,
                   error_count, task, count, got, skipped, rpc, mainVars, histVars>>

\* line 123: download_queue.get(), which waits while the queue is empty
worker_get(w) ==
    /\ pc[w] = "get"
    /\ download_queue # <<>>
    /\ task' = [task EXCEPT ![w] = Head(download_queue)]
    /\ download_queue' = Tail(download_queue)
    /\ pc' = [pc EXCEPT ![w] = "count"]
    /\ UNCHANGED <<envVars, lockVars, speedVars, byteVars, fsVars, planVars,
                   unfinished_tasks, progressVars,
                   Global_Download, error_count, count, got, skipped, rpc, mainVars, histVars>>

\* lines 127-128: count = _error_count.get(url, 0) and the test on it
worker_count(w) ==
    /\ pc[w] = "count"
    /\ count' = [count EXCEPT ![w] = error_count[task[w].url]]
    /\ pc' = [pc EXCEPT ![w] =
                 IF UnderBudget(error_count[task[w].url]) THEN "exists" ELSE "retire"]
    /\ UNCHANGED <<envVars, lockVars, speedVars, byteVars, fsVars, planVars, queueVars,
                   progressVars, Global_Download,
                   error_count, task, got, skipped, rpc, mainVars, histVars>>

\* line 129 with the file there: nothing is left to do but line 146
worker_skip(w) ==
    /\ pc[w] = "exists"
    /\ task[w].path \in files
    /\ skipped' = [skipped EXCEPT ![w] = TRUE]
    /\ pc' = [pc EXCEPT ![w] = "done"]
    /\ UNCHANGED <<envVars, lockVars, speedVars, byteVars, fsVars, planVars, queueVars,
                   progressVars, Global_Download, error_count, task, count, got, rpc,
                   mainVars, histVars>>

\* line 129 with the file missing
worker_exists(w) ==
    /\ pc[w] = "exists"
    /\ task[w].path \notin files
    /\ pc' = [pc EXCEPT ![w] = "lock"]
    /\ UNCHANGED <<envVars, lockVars, speedVars, byteVars, fsVars, planVars, queueVars,
                   progressVars, Global_Download, error_count, task, count, got, skipped, rpc,
                   mainVars, histVars>>

\* lines 130-131: _CREATE_FOLDER_LOCK is acquired and the directory tested;
\* if it is there the with block ends and the lock is released
worker_lock(w) ==
    /\ pc[w] = "lock"
    /\ FolderLockFree(folder_lock)
    /\ IF task[w].path.dir \in dirs
       THEN /\ pc' = [pc EXCEPT ![w] = "request"]
            /\ folder_lock' = folder_lock
       ELSE /\ pc' = [pc EXCEPT ![w] = "makedirs"]
            /\ folder_lock' = w
    /\ UNCHANGED <<envVars, speed_lock, speedVars, byteVars, fsVars, planVars, queueVars,
                   progressVars, Global_Download, error_count, task, count, got, skipped, rpc,
                   mainVars, histVars>>

\* line 132: os.makedirs (the directory and the missing ones above it), and
\* the end of the with block: the lock is released whether makedirs returns
\* or raises. It raises FileExistsError if the directory is there and may
\* raise OSError otherwise; the exception is outside the try of line 133: it
\* ends the thread, line 146 not reached.
worker_makedirs(w) ==
    /\ pc[w] = "makedirs"
    /\ folder_lock' = 0
    /\ IF task[w].path.dir \in dirs
       THEN /\ pc' = [pc EXCEPT ![w] = "dead"]
            /\ dirs' = dirs
       ELSE \E outcome \in FsOutcomes :
               IF outcome = "done"
               THEN /\ dirs' = dirs \cup {task[w].path.dir, Base}
                    /\ pc' = [pc EXCEPT ![w] = "request"]
               ELSE /\ dirs' = dirs
                    /\ pc' = [pc EXCEPT ![w] = "dead"]
    /\ UNCHANGED <<envVars, speed_lock, speedVars, byteVars, files, planVars, queueVars,
                   progressVars, Global_Download, error_count, task, count, got, skipped, rpc,
                   mainVars, histVars>>

\* download_file lines 103-107 and 116-117: the request and what it comes
\* to; without a content-length download_file returns
worker_request(w) ==
    /\ pc[w] = "request"
    /\ \E outcome \in Outcomes :
          /\ noops' = IF outcome = "nolen" THEN noops + 1 ELSE noops
          /\ IF outcome = "error"
             THEN /\ budget > 0
                  /\ budget' = budget - 1
                  /\ failed' = [failed EXCEPT ![task[w].url] = @ + 1]
                  /\ pc' = [pc EXCEPT ![w] = "put"]
                  /\ UNCHANGED succeeded
             ELSE IF HasBody(outcome)
             THEN /\ pc' = [pc EXCEPT ![w] = "recv"]
                  /\ UNCHANGED <<failed, succeeded, budget>>
             ELSE /\ pc' = [pc EXCEPT ![w] = "incr"]
                  /\ succeeded' = succeeded \cup {task[w].url}
                  /\ UNCHANGED <<failed, budget>>
    /\ UNCHANGED <<envVars, lockVars, speedVars, byteVars, fsVars, planVars, queueVars,
                   progressVars, Global_Download, error_count, task, count, got, skipped, rpc,
                   mainVars, writes, retired, reached, faults, one_url, removed>>

\* download_file lines 109-113: a chunk arrives; _SPEED_LOCK is acquired,
\* its length added to _Global_Download and the lock released
worker_recv(w) ==
    /\ pc[w] = "recv"
    /\ got[w] < MaxChunks
    /\ SpeedLockFree(speed_lock)
    /\ Global_Download' = Global_Download + ChunkLen
    /\ added' = added + ChunkLen
    /\ got' = [got EXCEPT ![w] = @ + 1]
    /\ UNCHANGED <<envVars, lockVars, speedVars, sampled, fsVars, planVars, queueVars,
                   progressVars, error_count, pc, task, count, skipped, rpc, mainVars, histVars>>

\* download_file line 109: iter_content raises, the connection having broken
worker_break(w) ==
    /\ pc[w] = "recv"
    /\ faults > 0
    /\ faults' = faults - 1
    /\ failed' = [failed EXCEPT ![task[w].url] = @ + 1]
    /\ got' = [got EXCEPT ![w] = 0]
    /\ pc' = [pc EXCEPT ![w] = "put"]
    /\ UNCHANGED <<envVars, lockVars, speedVars, byteVars, fsVars, planVars, queueVars,
                   progressVars, Global_Download, error_count, task, count, skipped, rpc, mainVars,
                   succeeded, writes, retired, noops, reached, budget, one_url, removed>>

\* download_file line 109: the body has ended
worker_body(w) ==
    /\ pc[w] = "recv"
    /\ got' = [got EXCEPT ![w] = 0]
    /\ pc' = [pc EXCEPT ![w] = "write"]
    /\ UNCHANGED <<envVars, lockVars, speedVars, byteVars, fsVars, planVars, queueVars,
                   progressVars, Global_Download, error_count, task, count, skipped, rpc, mainVars,
                   histVars>>

\* download_file lines 114-115: the file is opened and written, and
\* download_file returns; or open() or a write raises
worker_write(w) ==
    /\ pc[w] = "write"
    /\ \E outcome \in WriteOutcomes :
          IF outcome = "done"
          THEN /\ files' = files \cup {task[w].path}
               /\ writes' = IF task[w].path \in DOMAIN writes
                            THEN [writes EXCEPT ![task[w].path] = @ + 1]
                            ELSE [p \in DOMAIN writes \cup {task[w].path} |->
                                     IF p = task[w].path THEN 1 ELSE writes[p]]
               /\ succeeded' = succeeded \cup {task[w].url}
               /\ pc' = [pc EXCEPT ![w] = "incr"]
               /\ UNCHANGED <<failed, faults>>
          ELSE /\ faults > 0
               /\ faults' = faults - 1
               /\ failed' = [failed EXCEPT ![task[w].url] = @ + 1]
               /\ files' = IF outcome = "partial" THEN files \cup {task[w].path} ELSE files
               /\ pc' = [pc EXCEPT ![w] = "put"]
               /\ UNCHANGED <<writes, succeeded>>
    /\ UNCHANGED <<envVars, lockVars, speedVars, byteVars, dirs, planVars, queueVars,
                   progressVars, Global_Download, error_count, task, count, got, skipped, rpc,
                   mainVars, retired, noops, reached, budget, one_url, removed>>

\* lines 135-136: _finished_download += 1 under _PROGRESS_LOCK
worker_incr(w) ==
    /\ pc[w] = "incr"
    /\ finished_download' = finished_download + 1
    /\ pc' = [pc EXCEPT ![w] = "done"]
    /\ UNCHANGED <<envVars, lockVars, speedVars, byteVars, fsVars, planVars, queueVars,
                   queue_size, Global_Download, error_count, task, count, got, skipped, rpc,
                   mainVars, histVars>>

\* lines 137-140: the handler puts the illustration back (count < 5 holds
\* again: count has not changed since line 128)
worker_put(w) ==
    /\ pc[w] = "put"
    /\ UnderBudget(count[w])
    /\ download_queue' = Append(download_queue, task[w])
    /\ unfinished_tasks' = UnfinishedAfterPut(unfinished_tasks)
    /\ pc' = [pc EXCEPT ![w] = "errinc"]
    /\ UNCHANGED <<envVars, lockVars, speedVars, byteVars, fsVars, planVars, progressVars,
                   Global_Download,
                   error_count, task, count, got, skipped, rpc, mainVars, histVars>>

\* line 141: _error_count[url] = count + 1
worker_errinc(w) ==
    /\ pc[w] = "errinc"
    /\ error_count' = [error_count EXCEPT ![task[w].url] =
                          NextErrorCount(count[w], error_count[task[w].url])]
    /\ finished_download' = FinishedAfterRetry(finished_download)
    /\ reached' = [reached EXCEPT ![task[w].url] =
                      IF error_count'[task[w].url] = MAX_ERROR_COUNT /\ @ = "never"
                      THEN "now" ELSE @]
    /\ pc' = [pc EXCEPT ![w] = "done"]
    /\ UNCHANGED <<envVars, lockVars, speedVars, byteVars, fsVars, planVars, queueVars,
                   queue_size, Global_Download, task, count, got, skipped,
                   rpc, mainVars, failed, succeeded, writes, retired, noops, budget, one_url,
                   faults, removed>>

\* lines 143-145: the task is given up and counted as finished
worker_retire(w) ==
    /\ pc[w] = "retire"
    /\ finished_download' = finished_download + 1
    /\ retired' = retired + 1
    /\ pc' = [pc EXCEPT ![w] = "done"]
    /\ UNCHANGED <<envVars, lockVars, speedVars, byteVars, fsVars, planVars, queueVars,
                   queue_size, Global_Download, error_count, task, count, got, skipped,
                   rpc, mainVars, failed, succeeded, writes, noops, reached, budget, one_url,
                   faults, removed>>

\* line 146: download_queue.task_done(), and back to the loop test
task_done(w) ==
    /\ pc[w] = "done"
    /\ unfinished_tasks' = unfinished_tasks - 1
    /\ task' = [task EXCEPT ![w] = NoTask]
    /\ count' = [count EXCEPT ![w] = 0]
    /\ skipped' = [skipped EXCEPT ![w] = FALSE]
    /\ pc' = [pc EXCEPT ![w] = "empty"]
    /\ UNCHANGED <<envVars, lockVars, speedVars, byteVars, fsVars, planVars,
                   download_queue, progressVars, Global_Download, error_count, got, rpc,
                   mainVars, histVars>>

download_threading(w) ==
    \/ worker_empty(w) \/ worker_get(w) \/ worker_count(w) \/ worker_skip(w)
    \/ worker_exists(w) \/ worker_lock(w) \/ worker_makedirs(w) \/ worker_request(w)
    \/ worker_recv(w) \/ worker_break(w) \/ worker_body(w) \/ worker_write(w)
    \/ worker_incr(w) \/ worker_put(w) \/ worker_errinc(w) \/ worker_retire(w)
    \/ task_done(w)

Next ==
    \/ caller_save_path
    \/ \E opt \in Callers, pages \in PageLists :
          Asks(opt, pages) /\ download_illustrations(opt, pages)
    \/ queue_join
    \/ reporter_join
    \/ remove_repeat
    \/ print_progress
    \/ \E w \in Workers : download_threading(w)

Spec == Init /\ [][Next]_vars

\* The threads are scheduled by the operating system and every request
\* returns: each thread that can take a step takes one (a thread that has
\* died takes none). Nothing makes the caller call download_illustrations
\* again.
FairSpec ==
    /\ Spec
    /\ \A w \in Workers : WF_vars(download_threading(w))
    /\ WF_vars(print_progress)
    /\ WF_vars(queue_join)
    /\ WF_vars(reporter_join)

(* ------------------ one call of download_illustrations ------------------ *)
\* The paths a data_list of the planner's inputs can lead to.
PlanPaths ==
    { get_filepath(url, from_data([n \in 1..MaxIllust |-> <<>>], opt)[i], {},
                   opt.add_user_folder, opt.add_rank).path :
         url \in PlanURLS, i \in 1..MaxIllust, opt \in Callers }

\* A caller of lines 233-288 is about to start: over any files already
\* there, in their directories under the base directory (which is missing
\* only when no file is there); in a process that has made no run, or after
\* a run of MaxTasks tasks that has returned and left its counters.
PlanInit ==
    /\ opts = NoOpts
    /\ data_list = <<>>
    /\ files \in SUBSET PlanPaths
    /\ \E b \in SUBSET {Base} :
          dirs = { p.dir : p \in files } \cup (IF files = {} THEN b ELSE {Base})
    /\ illustrations = <<>> /\ plan_count = 0
    /\ download_queue = <<>> /\ unfinished_tasks = 0
    /\ \E before \in {0, 1} :
          /\ runs = before
          /\ queue_size = before * MaxTasks
          /\ finished_download = before * MaxTasks
          /\ Global_Download = before * ChunkLen
          /\ rpc = IF before = 0 THEN "idle" ELSE "done"
          /\ pc = [w \in Workers |-> IF before = 0 THEN "idle" ELSE "exit"]
    /\ error_count = [u \in URLS |-> 0]
    /\ task = [w \in Workers |-> NoTask]
    /\ count = [w \in Workers |-> 0]
    /\ got = [w \in Workers |-> 0]
    /\ skipped = [w \in Workers |-> FALSE]
    /\ mpc = "idle"
    /\ failed = [u \in URLS |-> 0] /\ succeeded = {}
    /\ writes = [p \in {} |-> 0] /\ retired = 0 /\ noops = 0
    /\ reached = [u \in URLS |-> "never"]
    /\ budget = 0 /\ faults = 0 /\ removed = FALSE /\ one_url = FALSE
    /\ folder_lock = 0 /\ speed_lock = "free"
    /\ down = 0 /\ tick = 1 /\ printed = NoLine
    /\ sampled = 0 /\ added = 0

\* the caller's get_default_save_path, then lines 219-230 up to the start of
\* the threads
NextPlanner ==
    \/ caller_save_path
    \/ \E opt \in Callers, pages \in PlanPageLists : download_illustrations(opt, pages)

SpecPlanner == PlanInit /\ [][NextPlanner]_vars

(* ----------------------------- get_speed -------------------------------- *)
\* A speed is the fraction down / t0: bytes over seconds, t0 > 0.

\* line 73
Units == <<" B", "KB", "MB", "GB", "TB", "PB">>

RECURSIVE LogOfWhole(_)
\* floor(log1024(q)) of a whole number q >= 1
LogOfWhole(q) == IF q >= KILO THEN 1 + LogOfWhole(q \div KILO) ELSE 0

RECURSIVE LogOfFraction(_, _)
\* floor(log1024(num / den)) for 0 < num < den
LogOfFraction(num, den) ==
    IF num * KILO >= den THEN -1 ELSE LogOfFraction(num * KILO, den) - 1

\* line 74: math.floor(math.log(speed, 1024.0)) for speed = num / den > 0
FloorLog(num, den) ==
    IF num >= den THEN LogOfWhole(num \div den) ELSE LogOfFraction(num, den)

RECURSIVE Pow(_, _)
Pow(b, n) == IF n = 0 THEN 1 ELSE b * Pow(b, n - 1)

\* line 75: speed /= math.pow(1024.0, unit), as a fraction <<num, den>>
Scaled(num, den, unit) ==
    IF unit >= 0 THEN <<num, den * Pow(KILO, unit)>>
                 ELSE <<num * Pow(KILO, 0 - unit), den>>

RECURSIVE BitLength(_)
\* the number of binary digits of a whole number
BitLength(n) == IF n = 0 THEN 0 ELSE 1 + BitLength(n \div 2)

\* the bits of the significand of a double
MantissaBits == 53

RECURSIVE RoundsUp(_, _, _)
\* num / den as a float: the division in binary goes on from the remainder
\* rem, bits digits of the significand being out (none before the leading
\* one), and the last of the MantissaBits digits is rounded up when the rest
\* is more than half of it (it is never the half: den is no power of 2)
RoundsUp(rem, den, bits) ==
    IF bits = MantissaBits THEN 2 * rem > den
    ELSE LET bit == (2 * rem) \div den
         IN  RoundsUp((2 * rem) % den, den,
                      IF bits > 0 \/ bit = 1 THEN bits + 1 ELSE 0)

\* '%6.2f' of the float of the fraction frac (the quotient of line 70 is the
\* float nearest to it and line 75 scales by a power of 2, without error):
\* the value in hundredths. The decimal digits of the float are exact and
\* the third rounds the second to the nearest. A fraction off a tie [an odd
\* number of half hundredths, m / 200] is at least 1 / (200 * den) away from
\* it, more than its float is from the fraction, so the float rounds as the
\* fraction does. On a tie the float decides: when m / 200 is a float itself
\* [25 divides m, leaving eighths] the tie goes to the even hundredth;
\* otherwise the float lies above the tie or below it.
Hundredths(frac) ==
    LET h == (100 * frac[1]) \div frac[2]
        r == (100 * frac[1]) % frac[2]
        m == 2 * h + 1
    IN  IF 2 * r < frac[2] THEN h
        ELSE IF 2 * r > frac[2] THEN h + 1
        ELSE IF m % 25 = 0 THEN (IF h % 2 = 0 THEN h ELSE h + 1)
        ELSE IF RoundsUp(m % 200, 200, BitLength(m \div 200)) THEN h + 1
        ELSE h

\* units[unit]: a list index of Python counts from the end when negative
\* and raises IndexError outside -len..len-1
Index(list, i) ==
    IF 0 <= i /\ i < Len(list) THEN list[i + 1]
    ELSE IF 0 - Len(list) <= i /\ i < 0 THEN list[Len(list) + i + 1]
    ELSE "IndexError"

\* lines 70-76: the speed formatted, as the value in hundredths and the unit
\* (the empty unit is that of '%8.2f /s' % 0)
get_speed(bytes, t0) ==
    IF bytes = 0 THEN [hundredths |-> 0, unit |-> ""]
    ELSE LET unit == FloorLog(bytes, t0)
         IN  [hundredths |-> IF Index(Units, unit) = "IndexError" THEN 0
                             ELSE Hundredths(Scaled(bytes, t0, unit)),
              unit |-> Index(Units, unit)]

\* The byte counts and the tick lengths get_speed is verified on.
ByteCounts ==
    {0, 2500000, KILO + KILO \div 8} \cup
    { b \in { m * size + d : m \in 1..MaxSample, size \in {1, KILO, KILO * KILO},
                              d \in {-1, 0, 1} } : b >= 0 }
TickLengths == 1..MaxElapsed

\* A tick of a run of one task: the sleep of line 83 is over, t0 has been
\* measured and get_speed is about to be called.
SpeedInit ==
    /\ opts \in Callers
    /\ data_list = <<>>
    /\ files = {} /\ dirs = {}
    /\ illustrations = <<>> /\ plan_count = 1
    /\ download_queue = <<>> /\ unfinished_tasks = 1
    /\ queue_size = 1 /\ finished_download = 0
    /\ Global_Download \in ByteCounts
    /\ error_count = [u \in URLS |-> 0]
    /\ pc = [w \in Workers |-> "idle"]
    /\ task = [w \in Workers |-> NoTask]
    /\ count = [w \in Workers |-> 0]
    /\ got = [w \in Workers |-> 0]
    /\ skipped = [w \in Workers |-> FALSE]
    /\ rpc = "loop"
    /\ mpc = "join" /\ runs = 1
    /\ failed = [u \in URLS |-> 0] /\ succeeded = {}
    /\ writes = [p \in {} |-> 0] /\ retired = 0 /\ noops = 0
    /\ reached = [u \in URLS |-> "never"]
    /\ budget = 0 /\ faults = 0 /\ removed = FALSE /\ one_url = FALSE
    /\ folder_lock = 0 /\ speed_lock = "free"
    /\ down = 0 /\ tick \in TickLengths /\ printed = NoLine
    /\ sampled = 0 /\ added = Global_Download

\* get_speed(t0), lines 64-76, up to its return
speed_sample ==
    /\ rpc = "loop"
    /\ down' = Global_Download
    /\ Global_Download' = 0
    /\ sampled' = sampled + Global_Download
    /\ printed' = get_speed(Global_Download, tick)
    /\ rpc' = "return"
    /\ UNCHANGED <<envVars, lockVars, tick, added, fsVars, planVars, queueVars,
                   progressVars, error_count, workerVars, mainVars, histVars>>

SpecSpeed == SpeedInit /\ [][speed_sample]_vars

(* ------------------------------ claims --------------------------------- *)
\* C1: a run that planned T > 0 tasks ends (the queue join and the reporter
\* join both return), and it ends with finishedTasks = T. The runs in which a
\* worker thread has died in os.makedirs or a call of download_file has
\* raised are left aside: the claim fails without them.
\* (Where the run does not end, the main thread waits in p.join() and
\* print_progress keeps printing the same line: no variable changes any more.)
C1_Completion ==
    [](mpc = "join" => <>(\/ mpc = "idle" /\ finished_download = queue_size
                          \/ \E w \in Workers : pc[w] = "dead"
                          \/ \E u \in URLS : failed[u] > 0))

\* C2: finishedTasks stays within 0..totalTasks, and it never decreases
\* between the counter reset of a run and the reset of the next. (The reset,
\* lines 224-226, is one step: no other thread of the run exists yet.)
C2_FinishedBounded ==
    /\ [](0 <= finished_download /\ finished_download <= queue_size)
    /\ [][runs' = runs => finished_download' >= finished_download]_vars

\* a run of two tasks has counted both: one retired, one downloaded
C2_Witness ==
    /\ queue_size = 2 /\ finished_download = 2
    /\ retired = 1 /\ DOMAIN writes # {}

\* the workers holding a task that is neither counted nor put back yet: from
\* the get of line 123 to the count of line 136 or 145 or the put of line
\* 140, and, when line 129 found the file there, up to the task_done of line
\* 146
Held == { w \in Workers :
            \/ pc[w] \in {"count", "exists", "lock", "makedirs", "request", "recv",
                          "write", "incr", "put", "retire", "dead"}
            \/ pc[w] = "done" /\ skipped[w] }

\* C3: finishedTasks + the tasks waiting in the queue + the tasks held by a
\* worker and not yet counted or put back = totalTasks (so finishedTasks =
\* totalTasks exactly when the queue is drained).
C3_Conservation ==
    finished_download + Len(download_queue) + Cardinality(Held) = queue_size

\* the number of tasks of the first run that carry URL u / path p
TasksWithUrl(u) ==
    Cardinality({ i \in DOMAIN Flatten(data_list) : Flatten(data_list)[i] = u })
FirstPlan ==
    check_files(from_data(data_list, opts), {}, {}, opts.add_user_folder, opts.add_rank)
TasksWithPath(p) ==
    Cardinality({ i \in DOMAIN FirstPlan.queue : FirstPlan.queue[i].path = p })
PathsOfUrl(u) == { FirstPlan.queue[i].path : i \in { j \in DOMAIN FirstPlan.queue :
                                                        FirstPlan.queue[j].url = u } }

\* C4: a URL of exactly one task, with no error counted when the run
\* starts and every request for it failing, is requested at most
\* MAX_RETRIES times, and exactly MAX_RETRIES times once the run has
\* returned: then its task was retired (counted once) and its file is not
\* there. Stated for the first run of the process, for a URL whose
\* destination no other task shares, in a process where a call of
\* download_file raises only because its request failed.
C4_RetryBound ==
    \A u \in URLS :
       (/\ runs = 1
        /\ TasksWithUrl(u) = 1
        /\ \A p \in PathsOfUrl(u) : TasksWithPath(p) = 1
        /\ u \notin succeeded
        /\ one_url)
       => /\ failed[u] <= MAX_ERROR_COUNT
          /\ (mpc = "idle" /\ plan_count > 0)
                => (/\ failed[u] = MAX_ERROR_COUNT
                    /\ retired >= 1
                    /\ PathsOfUrl(u) \cap files = {})

\* C5: no URL's error count ever exceeds MAX_RETRIES.
C5_BudgetBounded == \A u \in URLS : error_count[u] <= MAX_ERROR_COUNT

\* a URL's count is at MAX_RETRIES in a run of two tasks of this URL while
\* both workers hold a task of it, one of them about to store the count it
\* computed
C5_Witness ==
    \E u \in URLS : \E w1, w2 \in Workers :
       /\ w1 # w2
       /\ queue_size = 2
       /\ error_count[u] = MAX_ERROR_COUNT
       /\ task[w1].url = u /\ task[w2].url = u
       /\ pc[w1] = "errinc"

\* the (illustration, URL) pairs of the data_list, the task of a pair, and
\* the pairs whose destination does not exist
Pairs == UNION { { <<i, data_list[i][k]>> : k \in DOMAIN data_list[i] } : i \in DOMAIN data_list }
TaskOf(pr) ==
    LET fp == get_filepath(pr[2], from_data(data_list, opts)[pr[1]], dirs,
                           opts.add_user_folder, opts.add_rank)
    IN  [url |-> pr[2], file |-> fp.file, path |-> fp.path]
Missing == { pr \in Pairs : TaskOf(pr).path \notin files }
\* the illustrations that had a URL, in their order
WithUrls == SelectSeq([i \in DOMAIN data_list |-> i], LAMBDA n : data_list[n] # <<>>)

\* C6: the queue check_files returns holds one task for each (illustration,
\* URL) pair whose destination does not exist and no other task, the count is
\* the length of the queue, and each illustration is left with the URLs
\* enqueued for it.
C6_PlannerExact ==
    mpc # "call" =>
       /\ \A t \in Range(download_queue) \cup { TaskOf(pr) : pr \in Missing } :
             Cardinality({ k \in DOMAIN download_queue : download_queue[k] = t })
                = Cardinality({ pr \in Missing : TaskOf(pr) = t })
       /\ plan_count = Len(download_queue)
       /\ Len(illustrations) = Len(WithUrls)
       /\ \A k \in DOMAIN illustrations :
             Range(illustrations[k].image_urls)
                = { pr[2] : pr \in { q \in Missing : q[1] = WithUrls[k] } }

\* 2 illustrations, 3 URLs, 1 destination there: the count is 2
C6_Witness ==
    /\ mpc # "call"
    /\ Len(data_list) = 2 /\ Cardinality(Pairs) = 3 /\ Cardinality(Missing) = 2
    /\ plan_count = 2

\* the call that follows a run which counted every task, none retired: the
\* same data_list in the same layout, no file deleted since
RerunOfSuccess ==
    /\ mpc = "call" /\ runs' = runs + 1
    /\ data_list' = data_list /\ opts' = opts /\ plan_count > 0
    /\ ~removed
    /\ queue_size > 0 /\ finished_download = queue_size /\ retired = 0

\* C7 as claimed: after a run that counted every task by a request that
\* returned (none retired), the next call over the same illustrations
\* enqueues nothing and starts no thread.
C7_IdempotentSkip ==
    [][RerunOfSuccess
       => (plan_count' = 0 /\ mpc' = "idle" /\ pc' = pc /\ rpc' = rpc)]_vars

\* C7, amended: after a run that counted every task by a request that
\* returned and wrote its file (none retired, none answered without a
\* content-length), the next call over the same illustrations enqueues
\* nothing and starts no thread.
C7_IdempotentSkipWritten ==
    [][(RerunOfSuccess /\ noops = 0)
       => (plan_count' = 0 /\ mpc' = "idle" /\ pc' = pc /\ rpc' = rpc)]_vars

\* a second call over two illustrations has planned nothing after a run that
\* downloaded two files
C7_Witness ==
    /\ runs = 2 /\ mpc = "idle" /\ plan_count = 0 /\ Len(data_list) = 2
    /\ queue_size = 2 /\ finished_download = 2 /\ retired = 0 /\ noops = 0
    /\ Cardinality(files) = 2 /\ ~removed

\* a call of download_illustrations whose planner counts 0 starts no reporter
\* and no worker, writes no file and leaves finishedTasks, totalTasks, the
\* byte counter and the error counts as they were
NothingStarted ==
    /\ mpc' = "idle" /\ rpc' = rpc /\ pc' = pc
    /\ files' = files
    /\ finished_download' = finished_download /\ queue_size' = queue_size
    /\ Global_Download' = Global_Download /\ error_count' = error_count

\* C8: a call whose planner counts 0 starts no reporter and no worker,
\* writes no file and no directory, and leaves finishedTasks, totalTasks, the
\* byte counter and the error counts as they were.
C8_NothingToDo ==
    [][(mpc = "call" /\ runs' = runs + 1 /\ plan_count' = 0)
       => (NothingStarted /\ dirs' = dirs)]_vars

\* a call per artist has planned nothing, every file of its data_list being
\* there, with the counters a run left before it
C8_Witness ==
    /\ runs = 2 /\ mpc = "idle" /\ plan_count = 0
    /\ opts = ByUserId /\ data_list # <<>> /\ Flatten(data_list) # <<>>
    /\ finished_download = MaxTasks /\ queue_size = MaxTasks
    /\ Global_Download = ChunkLen

\* C9: the queue join has returned only with every task marked done and the
\* queue empty, and the run has returned only with that and the reporter's
\* loop ended.
C9_ReturnsAfterBoth ==
    /\ (mpc \in {"pjoin", "idle", "call"}) =>
          (/\ unfinished_tasks = 0 /\ download_queue = <<>>
           /\ \A w \in Workers : task[w] = NoTask)
    /\ (mpc \in {"idle", "call"}) => (rpc \in {"idle", "done"})

\* a run of two tasks has returned after a call of download_file raised and
\* its task was tried again
C9_Witness ==
    /\ mpc = "idle" /\ runs = 1 /\ plan_count = 2 /\ rpc = "done"
    /\ budget = 0 /\ faults = 0

\* C10: within one run no path is written more than once.
C10_OneWritePerPath == \A p \in DOMAIN writes : writes[p] <= 1

\* C11: a filesystem error in one worker's attempt (os.makedirs raising)
\* does not leave the queue join blocked for ever: the join of a run that
\* has started returns.
C11_PoolSurvivesFsError ==
    [](mpc = "join" => <>(mpc # "join"))

\* the workers that have dequeued a task and not marked it done
Holding == { w \in Workers : task[w] # NoTask }

\* C12: the queue's count of unfinished items is not zero while a task is in
\* the queue or held by a worker (in flight, or put back and not yet marked
\* done): the count is the tasks in the queue plus the tasks held, the put of
\* a retry coming before the task_done of the failed dequeue.
C12_JoinWaitsForRetry ==
    /\ (download_queue # <<>> \/ Holding # {}) => unfinished_tasks > 0
    /\ unfinished_tasks = Len(download_queue) + Cardinality(Holding)

\* a worker has put its failed task back and not yet marked the dequeue done:
\* the one task of the run counts twice
C12_Witness ==
    \E w \in Workers :
       /\ pc[w] \in {"errinc", "done"} /\ queue_size = 1
       /\ download_queue = <<task[w]>> /\ unfinished_tasks = 2

\* C13: for every URL the error count is the number of requests for it that
\* failed so far (outside the window in which a worker has seen its request
\* fail and has not stored the count yet).
C13_NoLostIncrement ==
    \A u \in URLS :
       (\A w \in Workers : task[w].url = u => pc[w] \notin {"put", "errinc"})
          => error_count[u] = failed[u]

\* C14: no worker waits in download_queue.get(): a worker that is about to
\* dequeue finds a task in the queue.
C14_NonBlockingDrain ==
    \A w \in Workers : pc[w] = "get" => download_queue # <<>>

\* C15: print_progress returns only with finishedTasks = totalTasks, and the
\* two are equal while it has returned.
C15_ReporterEndsAtTotal ==
    /\ [](rpc = "done" => finished_download = queue_size)
    /\ [][(rpc # "done" /\ rpc' = "done") => finished_download = queue_size]_vars

\* the reporter of a run of two tasks has returned, the queue join not yet
C15_Witness ==
    /\ rpc = "done" /\ mpc = "join"
    /\ queue_size = 2 /\ finished_download = 2

\* C16: the test for the directory and its making are one critical section
\* of _CREATE_FOLDER_LOCK: a worker about to call os.makedirs holds the lock,
\* it never calls it for a directory that is there, and a directory once
\* made stays.
C16_MkdirRaceSafe ==
    /\ [](\A w \in Workers : pc[w] = "makedirs" => folder_lock = w)
    /\ [][/\ \A w \in Workers :
                (pc[w] = "makedirs" /\ pc'[w] # "makedirs")
                   => task[w].path.dir \notin dirs
          /\ dirs \subseteq dirs']_vars

\* two workers need the same missing directory: one has made it and gone on,
\* the other has yet to take the lock and test for it
C16_Witness ==
    \E w1, w2 \in Workers :
       /\ w1 # w2
       /\ pc[w1] = "request" /\ pc[w2] = "lock"
       /\ task[w1].path.dir = task[w2].path.dir
       /\ task[w1].path.dir \in dirs
       /\ plan_count = 2 /\ runs = 1 /\ opts = ByRanking

\* C17: the bytes sampled so far in a run and the bytes in the counter add
\* up to the bytes the workers have added since the run's reset.
C17_BytesConserved ==
    sampled + Global_Download = added

\* of two chunks received one has been sampled, the other is in the counter
C17_Witness ==
    /\ added = 2 * ChunkLen
    /\ sampled = ChunkLen /\ Global_Download = ChunkLen

\* what a step of a worker that puts nothing back and counts no error leaves
QuietStep ==
    /\ files' = files /\ failed' = failed
    /\ download_queue' = download_queue
    /\ error_count' = error_count

\* C18: a request answered with a success status and no content-length
\* raises nothing and writes no file: the worker goes on to count the task,
\* counting it adds one to finishedTasks, and neither step nor the task_done
\* that follows puts anything back or changes the error counts or the files.
C18_NoLengthNoOp ==
    [][\A w \in Workers :
          /\ (pc[w] = "request" /\ pc'[w] # "request" /\ noops' = noops + 1)
                => (pc'[w] = "incr" /\ QuietStep)
          /\ (pc[w] = "incr" /\ pc'[w] # "incr")
                => (/\ finished_download' = finished_download + 1
                    /\ pc'[w] = "done" /\ QuietStep)
          /\ (pc[w] = "done" /\ pc'[w] # "done") => QuietStep]_vars

\* the one task of a run was answered without a content-length and counted:
\* the run has returned with no file, no error counted and nothing retired
C18_Witness ==
    /\ mpc = "idle" /\ runs = 1 /\ queue_size = 1 /\ finished_download = 1
    /\ noops = 1 /\ retired = 0 /\ files = {}
    /\ \A u \in URLS : error_count[u] = 0 /\ failed[u] = 0

\* the place of a unit among B, KB, MB, GB, TB, PB, counted from 0
UnitIndex(u) == CHOOSE i \in 0..(Len(Units) - 1) : Units[i + 1] = u

\* C19: for every positive speed s = bytes / seconds get_speed renders the
\* k-th unit of B, KB, MB, GB, TB, PB, k = floor(log1024(s)), and the value
\* s / 1024^k to two decimals.
C19_SpeedRendering ==
    (rpc = "return" /\ down > 0) =>
       LET k == FloorLog(down, tick)
       IN  /\ printed.unit \in Range(Units)
           /\ UnitIndex(printed.unit) = k
           /\ printed.hundredths = Hundredths(Scaled(down, tick, k))

\* C20: starting a run leaves the error counts as they are, and a task whose
\* URL's count reached MAX_RETRIES in an earlier run is retired at its
\* dequeue, with no request made for it, and counted as finished.
C20_BudgetPersists ==
    [][/\ (runs' # runs) => error_count' = error_count
       /\ \A w \in Workers :
             /\ (/\ pc[w] = "count" /\ pc'[w] # "count"
                 /\ reached[task[w].url] = "before")
                   => pc'[w] = "retire"
             /\ (pc[w] = "retire" /\ pc'[w] # "retire")
                   => finished_download' = finished_download + 1]_vars

====
